---- MODULE Spec2Model ----
(***************************************************************************)
(* Model of main.py: real time plot of the Elmor Labs KTH thermometer over *)
(* its USB serial interface.  One run of the script is: the                *)
(* identification handshake (check_connection), a first collection cycle   *)
(* (get_new_sensor_values) whose result becomes the dataframe df and is    *)
(* written to temperature_measurements.csv, then the animation loop, where *)
(* every timer tick (animation_update) runs one more collection cycle,     *)
(* appends its rows to df, evicts old rows and redraws the axis.           *)
(*                                                                         *)
(* The serial port is the environment: every open, write and read may      *)
(* raise, and a read returns at most the requested number of bytes.        *)
(* Numbers: a reading's value is a double.  It is written as the record    *)
(* [num, den, ulps]: the double that lies ulps units in the last place     *)
(* further from zero than the double nearest to num/den.  A timestamp is   *)
(* what the local wall clock shows, counted in its ticks: a reading is     *)
(* usually later than the one before, but a coarse clock repeats and a     *)
(* clock that is set back shows an earlier value.                          *)
(***************************************************************************)
EXTENDS Integers, Sequences, FiniteSets, TLC

VARIABLES
    lengthLimit,    \* the value of max_length the script runs with
    nrOfRows,       \* the number of entries of communication_specs it polls
    pc,             \* position of the script
    run,            \* number of runs of the script started so far
    cycles,         \* collection cycles started so far, in all runs
    cycleLimit,     \* collection cycles the behaviour may start
    inTick,         \* the current collection cycle runs inside animation_update
    i,              \* 1-based position in the probe list / communication_specs
    conn,           \* number of serial connections currently open
    wire,           \* serial events of the current operation, in order
    read_bytes,     \* local read_bytes of the running function
    timestamp,      \* local timestamp of get_new_sensor_values
    now,            \* the wall clock, as a logical clock
    df_new_data,    \* local df of get_new_sensor_values (the batch being built)
    df,             \* the dataframe df of __main__ (the in-memory buffer)
    csv_file,       \* lines of temperature_measurements.csv
    ax,             \* the lines drawn on the axis, per sensor id
    raised,         \* exception that ended the last operation, or "none"
    shortReads,     \* reads so far that returned fewer bytes than requested
    clockFaults,    \* clock readings so far that were not later than the last
    snapDf,         \* df as it was when the current operation started
    snapCsv         \* csv_file as it was when the current operation started

vars == <<lengthLimit, nrOfRows, pc, run, cycles, cycleLimit, inTick, i, conn, wire,
          read_bytes, timestamp, now, df_new_data, df, csv_file, ax, raised,
          shortReads, clockFaults, snapDf, snapCsv>>

----------------------------------------------------------------------------
(* Bounds of the model *)

\* MaxAnomalies bounds the short responses and the clock readings that are
\* not later than the reading before, counted together.
MaxRuns == 2
MaxCycles == 2
MaxAnomalies == 1
FillCycles == 102
MaxLimit == 6
MaxIngests == 4

----------------------------------------------------------------------------
(* Settings and static tables *)

\* save_to_csv = True
save_to_csv == TRUE

\* max_length = 500
max_length == 500

\* The four probe commands of check_connection, in the order they are sent.
probe_commands == <<0, 1, 2, 3>>

\* The literal the device ID response is compared with: b'\x0d\xee'.
device_id == <<13, 238>>

\* communication_specs, in declaration order.  multiplier names the literal
\* by its decimal: the double 0.1 is [num 1, den 10], the integer 1 is
\* [num 1, den 1].
communication_specs ==
    << [name |-> "TC1", command |-> 16, nr_of_bytes |-> 2,
        multiplier |-> [num |-> 1, den |-> 10], unit |-> "T", signed |-> TRUE],
       [name |-> "TC2", command |-> 17, nr_of_bytes |-> 2,
        multiplier |-> [num |-> 1, den |-> 10], unit |-> "T", signed |-> TRUE],
       [name |-> "VDD", command |-> 18, nr_of_bytes |-> 4,
        multiplier |-> [num |-> 1, den |-> 1], unit |-> "uV", signed |-> TRUE],
       [name |-> "TH1", command |-> 20, nr_of_bytes |-> 2,
        multiplier |-> [num |-> 1, den |-> 1], unit |-> "ADC value", signed |-> FALSE],
       [name |-> "TH2", command |-> 21, nr_of_bytes |-> 2,
        multiplier |-> [num |-> 1, den |-> 1], unit |-> "ADC value", signed |-> FALSE] >>

NrOfSpecs == Len(communication_specs)

\* The header row to_csv writes: the column names.
columns == <<"timestamp", "id", "unit", "value">>

----------------------------------------------------------------------------
(* Sequences *)

IsPrefix(s, t) == Len(s) <= Len(t) /\ SubSeq(t, 1, Len(s)) = s

\* bytes[0:n]
Slice(bytes, n) == SubSeq(bytes, 1, IF n < Len(bytes) THEN n ELSE Len(bytes))

----------------------------------------------------------------------------
(* int.from_bytes(bytes, byteorder='little', signed=signed) *)

RECURSIVE UnsignedLittle(_)
UnsignedLittle(bytes) ==
    IF bytes = <<>> THEN 0
    ELSE Head(bytes) + 256 * UnsignedLittle(Tail(bytes))

\* Two's complement over Len(bytes) bytes: the most significant (last) byte
\* carries the sign.  Written byte by byte so that a 4-byte value stays
\* within 32-bit arithmetic.
RECURSIVE SignedLittle(_)
SignedLittle(bytes) ==
    IF bytes = <<>> THEN 0
    ELSE IF Len(bytes) = 1
         THEN (IF bytes[1] >= 128 THEN bytes[1] - 256 ELSE bytes[1])
         ELSE Head(bytes) + 256 * SignedLittle(Tail(bytes))

\* Variant: the bytes taken most significant first (byteorder='big').
from_bytes_big(bytes, signed) ==
    LET rev == [k \in 1..Len(bytes) |-> bytes[Len(bytes) + 1 - k]]
    IN  IF signed THEN SignedLittle(rev) ELSE UnsignedLittle(rev)

from_bytes(bytes, signed) ==
    IF signed THEN SignedLittle(bytes) ELSE UnsignedLittle(bytes)

\* The double 0.1 is (2^56 + 4) / (10 * 2^56), so a * 0.1 is exactly
\* (a / 10) * (1 + 2^-54), which float multiplication rounds to 53 bits, ties
\* to even.  For 1 <= a <= 32768 let 2^e <= a/10 < 2^(e+1) and
\* a * 2^(52-e) = 10 * q + r10: q is the mantissa of a/10 cut off, r10/10
\* the part of a unit in the last place cut off, and the product adds
\* a / (40 * 2^e) of a unit to it.
Exponent(a) ==
    CHOOSE e \in -4..11 : 16 * a >= 10 * 2^(e + 4) /\ 16 * a < 10 * 2^(e + 5)

RECURSIVE PowMod(_, _, _)
PowMod(b, n, m) ==
    IF n = 0 THEN 1 % m
    ELSE LET h == PowMod(b, n \div 2, m)
         IN  IF n % 2 = 0 THEN (h * h) % m ELSE (h * h * b) % m

\* (a * 2^(52-e)) mod 20: r10 is its last digit, q is odd when it is >= 10.
Mod20(a) == ((a % 20) * PowMod(2, 52 - Exponent(a), 20)) % 20

\* How many units in the last place the double a * 0.1 lies above the
\* double nearest to a / 10: 0 or 1.
TenthUlps(a) ==
    IF a = 0 THEN 0
    ELSE LET e == Exponent(a)
             r10 == Mod20(a) % 10
             qodd == Mod20(a) >= 10
             sum == 4 * r10 * 2^(e + 4) + 16 * a     \* cut-off part plus excess
             half == 20 * 2^(e + 4)                  \* half a unit, same scale
             product_up == sum > half \/ (sum = half /\ qodd)
             nearest_up == r10 > 5
         IN  (IF product_up THEN 1 ELSE 0) - (IF nearest_up THEN 1 ELSE 0)

\* int * multiplier, as the double the value column holds.  The multiplier 1
\* leaves the integer; the multiplier 0.1 is applied to the integer of at
\* most two bytes.
Multiply(int, multiplier) ==
    IF multiplier.den = 1
    THEN [num |-> int * multiplier.num, den |-> 1, ulps |-> 0]
    ELSE [num |-> int * multiplier.num, den |-> multiplier.den,
          ulps |-> TenthUlps(IF int < 0 THEN 0 - int ELSE int)]

\* result = int.from_bytes(read_bytes[0:nr_of_bytes], ...) * multiplier
Result(spec, bytes) ==
    Multiply(from_bytes(Slice(bytes, spec.nr_of_bytes), spec.signed), spec.multiplier)

\* The row built for one sensor: [timestamp, name, unit, result].
NewRow(spec, ts, bytes) ==
    [timestamp |-> ts, id |-> spec.name, unit |-> spec.unit,
     value |-> Result(spec, bytes)]

----------------------------------------------------------------------------
(* Dataframes: a sequence of entries, each an index label and a row *)

\* Variant: the new row is put in front of the frame.
ConcatFront(frame, row) ==
    LET rows == <<row>> \o [k \in 1..Len(frame) |-> frame[k].row]
    IN  [k \in 1..Len(rows) |-> [label |-> k - 1, row |-> rows[k]]]

\* pd.concat([df, row], ignore_index=True): the labels become 0..n-1.
Concat(frame, row) ==
    LET rows == [k \in 1..Len(frame) |-> frame[k].row] \o <<row>>
    IN  [k \in 1..Len(rows) |-> [label |-> k - 1, row |-> rows[k]]]

Labels(frame) == {frame[k].label : k \in 1..Len(frame)}

\* df.index.max() and df.index.min(); only used on a non-empty frame.
IndexMax(frame) == CHOOSE m \in Labels(frame) : \A l \in Labels(frame) : l <= m
IndexMin(frame) == CHOOSE m \in Labels(frame) : \A l \in Labels(frame) : m <= l

\* df.loc[label] = row: overwrites the entry with that label, or enlarges
\* the frame by a new last entry.
LocSet(frame, label, row) ==
    IF label \in Labels(frame)
    THEN [k \in 1..Len(frame) |->
            IF frame[k].label = label THEN [label |-> label, row |-> row]
            ELSE frame[k]]
    ELSE Append(frame, [label |-> label, row |-> row])

\* df.drop(label, inplace=True): removes every entry with that label.
Drop(frame, label) ==
    LET Keep(e) == e.label # label IN SelectSeq(frame, Keep)

\* for _, row in df_new_data.iterrows(): df.loc[df.index.max()+1] = row
RECURSIVE AppendRows(_, _)
AppendRows(frame, new) ==
    IF new = <<>> THEN frame
    ELSE AppendRows(LocSet(frame, IndexMax(frame) + 1, Head(new).row), Tail(new))

\* for _ in range(n): df.drop(df.index.min(), inplace=True)
RECURSIVE DropOldest(_, _)
DropOldest(frame, n) ==
    IF n = 0 THEN frame
    ELSE DropOldest(Drop(frame, IndexMin(frame)), n - 1)

\* Variant: a single row is dropped, whatever the size of the batch.
EvictOne(frame, new, limit) ==
    IF Len(frame) > limit THEN DropOldest(frame, 1) ELSE frame

\* Variant: eviction already when the frame has reached the limit (>=).
EvictAtLimit(frame, new, limit) ==
    IF Len(frame) >= limit THEN DropOldest(frame, Len(new)) ELSE frame

\* if df.shape[0] > max_length: drop len(df_new_data) times
Evict(frame, new, limit) ==
    IF Len(frame) > limit THEN DropOldest(frame, Len(new)) ELSE frame

\* The buffer after animation_update has merged a batch.
Ingest(frame, new, limit) == Evict(AppendRows(frame, new), new, limit)

Rows(frame) == [k \in 1..Len(frame) |-> frame[k].row]

----------------------------------------------------------------------------
(* temperature_measurements.csv *)

\* Naturals beyond 32 bits: the digits in base 10000, least significant
\* first.
RECURSIVE BigTimes(_, _, _)
BigTimes(a, k, carry) ==
    IF a = <<>>
    THEN (IF carry = 0 THEN <<>> ELSE <<carry>>)
    ELSE LET t == Head(a) * k + carry
         IN  <<t % 10000>> \o BigTimes(Tail(a), k, t \div 10000)

\* 2^n, thirteen doublings at a time.
RECURSIVE BigTwoToThe(_)
BigTwoToThe(n) ==
    IF n <= 13 THEN <<2^n>> ELSE BigTimes(BigTwoToThe(n - 13), 8192, 0)

RECURSIVE BigLess(_, _)
BigLess(a, b) ==
    IF Len(a) # Len(b) THEN Len(a) < Len(b)
    ELSE IF a = <<>> THEN FALSE
    ELSE IF a[Len(a)] # b[Len(b)] THEN a[Len(a)] < b[Len(b)]
    ELSE BigLess(SubSeq(a, 1, Len(a) - 1), SubSeq(b, 1, Len(b) - 1))

\* 10^n
BigTenToThe(n) ==
    [k \in 1..(n \div 4 + 1) |-> IF k <= n \div 4 THEN 0 ELSE 10^(n % 4)]

RECURSIVE Zeros(_)
Zeros(n) == IF n = 0 THEN "" ELSE "0" \o Zeros(n - 1)

\* The digits from decimal place p on of the shortest decimal that reads
\* back as the double one unit in the last place above the double nearest
\* to a/10: zeros up to the first place at which some j / 10^p lies within
\* half a unit of that double, then the digit j nearest to it.  In tenths
\* of a unit the double lies 10 - r10 above a/10; tenp is 10^p, twos is
\* 2^(52-e), the number of units in 1.
RECURSIVE TailFrom(_, _, _)
TailFrom(tenp, twos, r10) ==
    LET lo == BigTimes(tenp, 5 - r10, 0)
        hi == BigTimes(tenp, 15 - r10, 0)
        twice == BigTimes(tenp, 2 * (10 - r10), 0)
        Step(k) == BigTimes(twos, 10 * k, 0)
        Within(j) == BigLess(lo, Step(j)) /\ BigLess(Step(j), hi)
        Nearest(j) == /\ BigLess(Step(2 * j - 1), twice)
                      /\ BigLess(twice, Step(2 * j + 1))
    IN  IF \E j \in 1..9 : Within(j)
        THEN ToString(CHOOSE j \in 1..9 : Within(j) /\ Nearest(j))
        ELSE "0" \o TailFrom(BigTimes(tenp, 10, 0), twos, r10)

\* The digits after the tenths.  With m = 52 - e, 10^p <= 2^m / 10 for
\* p < 3m/10 (as 10^3 < 2^10), and 1 / 10^p is then more than a unit and a
\* half: the search starts at place 3m/10.
TailDigits(a) ==
    LET m == 52 - Exponent(a)
        first == (3 * m) \div 10
    IN  Zeros(first - 2) \o TailFrom(BigTenToThe(first), BigTwoToThe(m), Mod20(a) % 10)

\* The text of a value of the float column 'value', the shortest decimal
\* that reads back as the same double: a whole number with ".0", the double
\* nearest to a/10 with its one decimal, its neighbour with 15 to 17.
FormatValue(v) ==
    IF v.den = 10
    THEN LET a == IF v.num < 0 THEN 0 - v.num ELSE v.num
         IN  (IF v.num < 0 THEN "-" ELSE "") \o ToString(a \div 10) \o "."
                 \o ToString(a % 10)
                 \o (IF v.ulps = 0 THEN "" ELSE TailDigits(a))
    ELSE ToString(v.num) \o ".0"

\* One line of the file for one row, index=False: the text of the four
\* column values, without the index label.
CsvLine(row) ==
    <<ToString(row.timestamp), row.id, row.unit, FormatValue(row.value)>>

CsvLines(frame) == [k \in 1..Len(frame) |-> CsvLine(frame[k].row)]

\* df.to_csv(name, index=False): mode 'w', with the header row.
WriteCsv(frame) == <<columns>> \o CsvLines(frame)

\* Variant: the append without header=False.
AppendCsvWithHeader(file, frame) == file \o <<columns>> \o CsvLines(frame)

\* df.to_csv(name, mode='a', header=False, index=False)
AppendCsv(file, frame) == file \o CsvLines(frame)

----------------------------------------------------------------------------
(* The axis after a redraw *)

IsTemperature(e) == e.row.unit = "T"

\* pivot raises ValueError ("Index contains duplicate entries") when two
\* temperature rows agree in timestamp, id and unit.
PivotRaises(frame) ==
    LET t == SelectSeq(frame, IsTemperature)
    IN  \E k, l \in 1..Len(t) :
            /\ k < l
            /\ t[k].row.timestamp = t[l].row.timestamp
            /\ t[k].row.id = t[l].row.id
            /\ t[k].row.unit = t[l].row.unit

\* The index of the pivot table is sorted: entries with distinct timestamps
\* in the order of their timestamps.
SortedByTimestamp(entries) ==
    LET n == Len(entries)
        rank == [k \in 1..n |->
                    1 + Cardinality({l \in 1..n :
                            entries[l].row.timestamp < entries[k].row.timestamp})]
    IN  [r \in 1..n |-> entries[CHOOSE k \in 1..n : rank[k] = r]]

\* df[df.unit == 'T'].pivot(columns=['id', 'unit'], index='timestamp') and
\* one ax.plot per column after dropna: for every sensor id among the
\* temperature rows, its points in timestamp order.  Only used on a frame
\* on which pivot does not raise.
Plot(frame) ==
    LET t == SelectSeq(frame, IsTemperature)
        ids == {t[k].row.id : k \in 1..Len(t)}
    IN  [s \in ids |->
            LET Mine(e) == e.row.id = s
                mine == SortedByTimestamp(SelectSeq(t, Mine))
            IN  [k \in 1..Len(mine) |-> <<mine[k].row.timestamp, mine[k].row.value>>]]

NoPlot == [s \in {} |-> <<>>]

----------------------------------------------------------------------------
(* The serial port *)

Event(ev, cmd, data) == [ev |-> ev, cmd |-> cmd, data |-> data]

OpenEvent == Event("open", -1, <<>>)
CloseEvent == Event("close", -1, <<>>)

\* Responses a read(100) of the handshake may return: to the device ID
\* probe, the one that is compared, the expected bytes and ones that differ
\* from them; to the other probes, which are only printed, nothing or some
\* bytes.
HandshakeReplies(cmd) ==
    IF cmd = 1
    THEN {<<>>, <<13>>, <<13, 238>>, <<238, 13>>, <<13, 238, 0>>}
    ELSE {<<>>, <<13, 238>>}

\* The bytes the device answers to a sensor command when nothing is lost.
DeviceReply(cmd) ==
    CASE cmd = 16 -> <<10, 0>>
      [] cmd = 17 -> <<7, 1>>
      [] cmd = 18 -> <<24, 252, 255, 255>>
      [] cmd = 20 -> <<255, 255>>
      [] cmd = 21 -> <<0, 128>>

\* ser.read(n): the first k <= n bytes of the answer; k < n on a timeout.
SensorReplies(cmd, n) ==
    {SubSeq(DeviceReply(cmd), 1, k) :
        k \in (IF shortReads + clockFaults < MaxAnomalies THEN 0..n ELSE {n})}

\* Variant: the connection is not closed on the way out.
CloseConnLeak == conn

\* Leaving the with block closes the connection if it was opened.
CloseConn == conn - 1

----------------------------------------------------------------------------
(* Initial state: no run started, no file written *)

Init ==
    /\ lengthLimit = max_length
    /\ nrOfRows = NrOfSpecs
    /\ pc = "off"
    /\ run = 0
    /\ cycles = 0
    /\ cycleLimit = MaxCycles
    /\ inTick = FALSE
    /\ i = 1
    /\ conn = 0
    /\ wire = <<>>
    /\ read_bytes = <<>>
    /\ timestamp = 0
    /\ now = 0
    /\ df_new_data = <<>>
    /\ df = <<>>
    /\ csv_file = <<>>
    /\ ax = NoPlot
    /\ raised = "none"
    /\ shortReads = 0
    /\ clockFaults = 0
    /\ snapDf = <<>>
    /\ snapCsv = <<>>

----------------------------------------------------------------------------
(* __main__: the script is started *)

\* What the clock shows when run number r starts.  Time passes between two
\* runs; only the order of timestamps matters, so every run starts at a
\* round value, later than the timestamps of a run before it whose clock
\* only went forward.
Epoch(r) == (r - 1) * NrOfSpecs * cycleLimit

StartRun ==
    /\ pc = "off"
    /\ run < MaxRuns
    /\ cycles < cycleLimit
    /\ run' = run + 1
    /\ pc' = "hs_open"
    /\ inTick' = FALSE
    /\ i' = 1
    /\ wire' = <<>>
    /\ read_bytes' = <<>>
    /\ df_new_data' = <<>>
    /\ df' = <<>>
    /\ ax' = NoPlot
    /\ raised' = "none"
    /\ snapDf' = <<>>
    /\ snapCsv' = csv_file
    /\ timestamp' = 0
    /\ now' = Epoch(run')
    /\ UNCHANGED <<lengthLimit, nrOfRows, cycles, cycleLimit, conn, csv_file, shortReads, clockFaults>>

----------------------------------------------------------------------------
(* check_connection *)

\* with serial.Serial(**kth_settings) as ser:
HsOpen ==
    /\ pc = "hs_open"
    /\ conn' = conn + 1
    /\ wire' = Append(wire, OpenEvent)
    /\ i' = 1
    /\ pc' = "hs_write"
    /\ UNCHANGED <<lengthLimit, nrOfRows, run, cycles, cycleLimit, inTick, read_bytes,
                   timestamp, now, df_new_data, df, csv_file, ax, raised,
                   shortReads, clockFaults, snapDf, snapCsv>>

\* ser.write(probe); ser.flush()
HsWrite ==
    /\ pc = "hs_write"
    /\ wire' = Append(wire, Event("write", probe_commands[i], <<>>))
    /\ pc' = "hs_read"
    /\ UNCHANGED <<lengthLimit, nrOfRows, run, cycles, cycleLimit, inTick, i, conn,
                   read_bytes, timestamp, now, df_new_data, df, csv_file, ax,
                   raised, shortReads, clockFaults, snapDf, snapCsv>>

\* Variant: no check of the device ID.
AssertMissing(cmd, bytes) == TRUE

\* The assertion after the device ID probe.
AssertPasses(cmd, bytes) == cmd # 1 \/ bytes = device_id

\* read_bytes = ser.read(100); print; after the device ID probe the assert.
\* A failed assert leaves the with block, which closes the connection, and
\* ends the script.
HsRead ==
    /\ pc = "hs_read"
    /\ \E bytes \in HandshakeReplies(probe_commands[i]) :
        /\ read_bytes' = bytes
        /\ IF AssertPasses(probe_commands[i], bytes)
           THEN /\ wire' = Append(wire, Event("read", probe_commands[i], bytes))
                /\ conn' = conn
                /\ raised' = raised
                /\ IF i < Len(probe_commands)
                   THEN i' = i + 1 /\ pc' = "hs_write"
                   ELSE i' = i /\ pc' = "hs_exit"
           ELSE /\ wire' = wire \o <<Event("read", probe_commands[i], bytes), CloseEvent>>
                /\ conn' = CloseConn
                /\ raised' = "AssertionError"
                /\ i' = i
                /\ pc' = "off"
    /\ UNCHANGED <<lengthLimit, nrOfRows, run, cycles, cycleLimit, inTick, timestamp, now,
                   df_new_data, df, csv_file, ax, shortReads, clockFaults, snapDf, snapCsv>>

\* The with block ends and check_connection returns; __main__ goes on to
\* the first call of get_new_sensor_values.
HsReturn ==
    /\ pc = "hs_exit"
    /\ conn' = CloseConn
    /\ wire' = <<>>
    /\ read_bytes' = <<>>
    /\ i' = 1
    /\ df_new_data' = <<>>
    /\ cycles' = cycles + 1
    /\ pc' = "col_open"
    /\ UNCHANGED <<lengthLimit, nrOfRows, run, cycleLimit, inTick, timestamp, now,
                   df, csv_file, ax, raised, shortReads, clockFaults, snapDf, snapCsv>>

\* serial.Serial(...), write, flush or read raises during the handshake.
HsFault ==
    /\ pc \in {"hs_open", "hs_write", "hs_read"}
    /\ conn' = (IF pc = "hs_open" THEN conn ELSE CloseConn)
    /\ wire' = (IF pc = "hs_open" THEN wire ELSE Append(wire, CloseEvent))
    /\ raised' = "SerialException"
    /\ pc' = "off"
    /\ UNCHANGED <<lengthLimit, nrOfRows, run, cycles, cycleLimit, inTick, i, read_bytes,
                   timestamp, now, df_new_data, df, csv_file, ax, shortReads, clockFaults,
                   snapDf, snapCsv>>

----------------------------------------------------------------------------
(* get_new_sensor_values *)

\* df = pd.DataFrame(); with serial.Serial(**kth_settings) as ser:
CollectOpen ==
    /\ pc = "col_open"
    /\ df_new_data' = <<>>
    /\ conn' = conn + 1
    /\ wire' = Append(wire, OpenEvent)
    /\ i' = 1
    /\ pc' = "col_write"
    /\ UNCHANGED <<lengthLimit, nrOfRows, run, cycles, cycleLimit, inTick, read_bytes,
                   timestamp, now, df, csv_file, ax, raised, shortReads, clockFaults,
                   snapDf, snapCsv>>

\* datetime.today(): what the wall clock may show, where now is what it
\* showed at the last sample.  Usually a later value; the same value when
\* the clock has not ticked since; an earlier one when the clock was set
\* back, here by the length of one cycle (it shows again what it showed at
\* the same sensor's last sample) or by more.
ClockReadings ==
    {now + 1} \cup (IF shortReads + clockFaults < MaxAnomalies
                    THEN {now, now + 1 - NrOfSpecs, now - NrOfSpecs}
                    ELSE {})

\* Variant: every command after the first gets a connection of its own.
CollectWriteReopens ==
    /\ pc = "col_write"
    /\ \E t \in ClockReadings :
        /\ timestamp' = t
        /\ now' = t
        /\ clockFaults' = (IF t <= now THEN clockFaults + 1 ELSE clockFaults)
    /\ wire' = wire \o (IF i > 1 THEN <<CloseEvent, OpenEvent>> ELSE <<>>)
                    \o <<Event("write", communication_specs[i].command, <<>>)>>
    /\ pc' = "col_read"
    /\ UNCHANGED <<lengthLimit, nrOfRows, run, cycles, cycleLimit, inTick, i, conn,
                   read_bytes, df_new_data, df, csv_file, ax, raised,
                   shortReads, snapDf, snapCsv>>

\* timestamp = pd.Timestamp(datetime.today()); ser.write(command); ser.flush()
CollectWrite ==
    /\ pc = "col_write"
    /\ \E t \in ClockReadings :
        /\ timestamp' = t
        /\ now' = t
        /\ clockFaults' = (IF t <= now THEN clockFaults + 1 ELSE clockFaults)
    /\ wire' = Append(wire, Event("write", communication_specs[i].command, <<>>))
    /\ pc' = "col_read"
    /\ UNCHANGED <<lengthLimit, nrOfRows, run, cycles, cycleLimit, inTick, i, conn,
                   read_bytes, df_new_data, df, csv_file, ax, raised,
                   shortReads, snapDf, snapCsv>>

\* read_bytes = ser.read(nr_of_bytes); decode; add the row to df.
CollectRead ==
    /\ pc = "col_read"
    /\ LET spec == communication_specs[i] IN
       \E bytes \in SensorReplies(spec.command, spec.nr_of_bytes) :
        /\ read_bytes' = bytes
        /\ shortReads' = (IF Len(bytes) < spec.nr_of_bytes
                          THEN shortReads + 1 ELSE shortReads)
        /\ wire' = Append(wire, Event("read", spec.command, bytes))
        /\ df_new_data' = Concat(df_new_data, NewRow(spec, timestamp, bytes))
    /\ IF i < nrOfRows
       THEN i' = i + 1 /\ pc' = "col_write"
       ELSE i' = i /\ pc' = "col_exit"
    /\ UNCHANGED <<lengthLimit, nrOfRows, run, cycles, cycleLimit, inTick, conn,
                   timestamp, now, df, csv_file, ax, raised, clockFaults,
                   snapDf, snapCsv>>

\* if save_to_csv: df.to_csv(name, mode='a', header=False, index=False)
SaveBatch(file, frame, flag) == IF flag THEN AppendCsv(file, frame) ELSE file

\* Variant: the first batch is never written.
SaveFirstSkipped(file, frame, flag) == file

\* __main__ after the first cycle: if save_to_csv: df.to_csv(name, index=False)
SaveFirst(file, frame, flag) == IF flag THEN WriteCsv(frame) ELSE file

\* The first cycle ends: the with block closes the connection,
\* get_new_sensor_values(save_to_csv=False) returns, __main__ keeps the
\* batch as df, writes the file, sets up the figure and enters the loop.
StartupReturn ==
    /\ pc = "col_exit"
    /\ ~inTick
    /\ conn' = CloseConn
    /\ wire' = Append(wire, CloseEvent)
    /\ df' = df_new_data
    /\ csv_file' = SaveFirst(SaveBatch(csv_file, df_new_data, FALSE),
                             df_new_data, save_to_csv)
    /\ ax' = NoPlot
    /\ read_bytes' = <<>>
    /\ pc' = "idle"
    /\ UNCHANGED <<lengthLimit, nrOfRows, run, cycles, cycleLimit, inTick, i, timestamp,
                   now, df_new_data, raised, shortReads, clockFaults, snapDf, snapCsv>>

----------------------------------------------------------------------------
(* animation_update *)

\* The timer fires: animation_update starts and calls
\* get_new_sensor_values(save_to_csv).
TickStart ==
    /\ pc = "idle"
    /\ cycles < cycleLimit
    /\ cycles' = cycles + 1
    /\ inTick' = TRUE
    /\ wire' = <<>>
    /\ raised' = "none"
    /\ df_new_data' = <<>>
    /\ snapDf' = df
    /\ snapCsv' = csv_file
    /\ pc' = "col_open"
    /\ UNCHANGED <<lengthLimit, nrOfRows, run, cycleLimit, i, conn, read_bytes,
                   timestamp, now, df, csv_file, ax, shortReads, clockFaults>>

\* The cycle of a tick ends: the connection is closed, the batch is saved
\* and returned, animation_update appends it to df in place, evicts and
\* redraws.  When pivot raises, the axis is not cleared and the exception
\* leaves animation_update with df and the file already changed; whether
\* the timer fires again is up to the GUI backend.
TickReturn ==
    /\ pc = "col_exit"
    /\ inTick
    /\ conn' = CloseConn
    /\ wire' = Append(wire, CloseEvent)
    /\ csv_file' = SaveBatch(csv_file, df_new_data, save_to_csv)
    /\ df' = Ingest(df, df_new_data, lengthLimit)
    /\ read_bytes' = <<>>
    /\ IF PivotRaises(df')
       THEN /\ ax' = ax
            /\ raised' = "ValueError"
            /\ \E next \in {"idle", "off"} : pc' = next
       ELSE /\ ax' = Plot(df')
            /\ raised' = raised
            /\ pc' = "idle"
    /\ UNCHANGED <<lengthLimit, nrOfRows, run, cycles, cycleLimit, inTick, i, timestamp,
                   now, df_new_data, shortReads, clockFaults, snapDf, snapCsv>>

\* Variant: a failed round-trip is swallowed and the cycle goes on with the
\* next sensor; only a failed open ends the cycle.
CollectFaultSwallowed ==
    /\ pc \in {"col_open", "col_write", "col_read"}
    /\ raised' = "SerialException"
    /\ IF pc = "col_open"
       THEN /\ \E next \in (IF inTick THEN {"idle", "off"} ELSE {"off"}) : pc' = next
            /\ i' = i
       ELSE IF i < nrOfRows
            THEN i' = i + 1 /\ pc' = "col_write"
            ELSE i' = i /\ pc' = "col_exit"
    /\ UNCHANGED <<lengthLimit, nrOfRows, run, cycles, cycleLimit, inTick, conn, wire,
                   read_bytes, timestamp, now, df_new_data, df, csv_file, ax,
                   shortReads, clockFaults, snapDf, snapCsv>>

\* serial.Serial(...), write, flush or read raises during a cycle.  The
\* exception leaves get_new_sensor_values at once, and its locals with it.
\* In the first cycle it
\* ends the script; inside a tick it leaves animation_update, and whether
\* the timer fires again is up to the GUI backend.
CollectFault ==
    /\ pc \in {"col_open", "col_write", "col_read"}
    /\ conn' = (IF pc = "col_open" THEN conn ELSE CloseConn)
    /\ wire' = (IF pc = "col_open" THEN wire ELSE Append(wire, CloseEvent))
    /\ raised' = "SerialException"
    /\ df_new_data' = <<>>
    /\ read_bytes' = <<>>
    /\ i' = 1
    /\ \E next \in (IF inTick THEN {"idle", "off"} ELSE {"off"}) : pc' = next
    /\ UNCHANGED <<lengthLimit, nrOfRows, run, cycles, cycleLimit, inTick, timestamp, now, df,
                   csv_file, ax, shortReads, clockFaults, snapDf, snapCsv>>

\* The window is closed: plt.show() returns and the script ends.
WindowClosed ==
    /\ pc = "idle"
    /\ pc' = "off"
    /\ UNCHANGED <<lengthLimit, nrOfRows, run, cycles, cycleLimit, inTick, i, conn, wire,
                   read_bytes, timestamp, now, df_new_data, df, csv_file, ax,
                   raised, shortReads, clockFaults, snapDf, snapCsv>>

----------------------------------------------------------------------------

Next ==
    \/ StartRun
    \/ HsOpen
    \/ HsWrite
    \/ HsRead
    \/ HsReturn
    \/ HsFault
    \/ CollectOpen
    \/ CollectWrite
    \/ CollectRead
    \/ StartupReturn
    \/ TickStart
    \/ TickReturn
    \/ CollectFault
    \/ WindowClosed

Spec == Init /\ [][Next]_vars

----------------------------------------------------------------------------
(* A long run: the port never fails, every response is complete, the clock *)
(* only goes forward and the window stays open, so that df fills up to     *)
(* max_length and beyond                                                   *)

InitFill ==
    /\ lengthLimit = max_length
    /\ nrOfRows = NrOfSpecs
    /\ pc = "off"
    /\ run = 0
    /\ cycles = 0
    /\ cycleLimit = FillCycles
    /\ inTick = FALSE
    /\ i = 1
    /\ conn = 0
    /\ wire = <<>>
    /\ read_bytes = <<>>
    /\ timestamp = 0
    /\ now = 0
    /\ df_new_data = <<>>
    /\ df = <<>>
    /\ csv_file = <<>>
    /\ ax = NoPlot
    /\ raised = "none"
    /\ shortReads = MaxAnomalies
    /\ clockFaults = 0
    /\ snapDf = <<>>
    /\ snapCsv = <<>>

NextFill ==
    \/ StartRun
    \/ HsOpen
    \/ HsWrite
    \/ HsRead
    \/ HsReturn
    \/ CollectOpen
    \/ CollectWrite
    \/ CollectRead
    \/ StartupReturn
    \/ TickStart
    \/ TickReturn

SpecFill == InitFill /\ [][NextFill]_vars

----------------------------------------------------------------------------
(* The program under other settings: max_length and the number of entries  *)
(* of communication_specs are given, the port never fails, every response  *)
(* is complete, the clock only goes forward and the window stays open      *)

\* The settings tried: every max_length up to MaxLimit with a table of the
\* first 1 to 5 sensors, for MaxIngests cycles, and the program's own
\* setting for as many cycles as fill df and evict twice.
IngestSettings ==
    {[limit |-> l, nrOfRows |-> n, ingests |-> MaxIngests] :
        l \in 1..MaxLimit, n \in 1..NrOfSpecs}
    \cup {[limit |-> max_length, nrOfRows |-> NrOfSpecs, ingests |-> FillCycles]}

InitIngest ==
    /\ \E s \in IngestSettings :
        /\ lengthLimit = s.limit
        /\ nrOfRows = s.nrOfRows
        /\ cycleLimit = s.ingests
    /\ pc = "off"
    /\ run = 0
    /\ cycles = 0
    /\ inTick = FALSE
    /\ i = 1
    /\ conn = 0
    /\ wire = <<>>
    /\ read_bytes = <<>>
    /\ timestamp = 0
    /\ now = 0
    /\ df_new_data = <<>>
    /\ df = <<>>
    /\ csv_file = <<>>
    /\ ax = NoPlot
    /\ raised = "none"
    /\ shortReads = MaxAnomalies
    /\ clockFaults = 0
    /\ snapDf = <<>>
    /\ snapCsv = <<>>

SpecIngest == InitIngest /\ [][NextFill]_vars

----------------------------------------------------------------------------
(* Decoding on its own: one response of any content for one sensor *)

ByteValues == {0, 10, 127, 128, 255}

Responses(n) == UNION {[1..k -> ByteValues] : k \in 0..n}

InitDecode ==
    /\ lengthLimit = max_length
    /\ nrOfRows = NrOfSpecs
    /\ pc = "decode"
    /\ run = 1
    /\ cycles = 0
    /\ cycleLimit = MaxCycles
    /\ inTick = FALSE
    /\ i \in 1..NrOfSpecs
    /\ conn = 1
    /\ wire = <<>>
    /\ read_bytes \in Responses(communication_specs[i].nr_of_bytes)
    /\ timestamp = 0
    /\ now = 1
    /\ df_new_data = <<>>
    /\ df = <<>>
    /\ csv_file = <<>>
    /\ ax = NoPlot
    /\ raised = "none"
    /\ shortReads = 0
    /\ clockFaults = 0
    /\ snapDf = <<>>
    /\ snapCsv = <<>>

\* Lines 95-99 applied to the response held in read_bytes.
Decode ==
    /\ pc = "decode"
    /\ df_new_data' = Concat(df_new_data,
                             NewRow(communication_specs[i], timestamp, read_bytes))
    /\ pc' = "decoded"
    /\ UNCHANGED <<lengthLimit, nrOfRows, run, cycles, cycleLimit, inTick, i, conn, wire,
                   read_bytes, timestamp, now, df, csv_file, ax, raised,
                   shortReads, clockFaults, snapDf, snapCsv>>

NextDecode == Decode

SpecDecode == InitDecode /\ [][NextDecode]_vars

----------------------------------------------------------------------------
(* Reading the event log *)

IsWrite(e) == e.ev = "write"
IsOpen(e) == e.ev = "open"

\* The commands written, in order.
Written(w) ==
    LET ws == SelectSeq(w, IsWrite) IN [k \in 1..Len(ws) |-> ws[k].cmd]

Opens(w) == Len(SelectSeq(w, IsOpen))

\* w is one connection carrying the round-trips of cmds in order: the open,
\* then for each command its write followed by its read.
OneConnectionCarries(w, cmds) ==
    /\ Len(w) = 1 + 2 * Len(cmds)
    /\ w[1] = OpenEvent
    /\ \A k \in 1..Len(cmds) :
        /\ w[2 * k].ev = "write" /\ w[2 * k].cmd = cmds[k]
        /\ w[2 * k + 1].ev = "read" /\ w[2 * k + 1].cmd = cmds[k]

----------------------------------------------------------------------------
(* Properties *)

\* C1 as stated: after every ingest (the startup batch and every tick) the
\* buffer df holds at most max_length rows, whatever max_length and the
\* size of the batches.
BufferWithinMaxLength ==
    pc = "idle" => Len(df) <= lengthLimit

\* C1 amended: after every ingest df holds at most max_length rows when a
\* batch has at most max_length rows, as in the program (5 and 500): below
\* max_length df grows by the batch, and a tick that takes it over
\* max_length removes exactly len(batch) rows.  When a batch has more rows
\* than max_length, df holds len(batch) rows after every ingest: the
\* startup batch is not cut, and a tick removes len(batch) rows once.  With
\* max_length = 3, four single-row batches leave 3 rows, the first row gone.
BufferWithinMaxLengthOrBatch ==
    pc = "idle" =>
        /\ nrOfRows <= lengthLimit => Len(df) <= lengthLimit
        /\ nrOfRows <= lengthLimit =>
              Len(df) = (IF cycles * nrOfRows <= lengthLimit
                         THEN cycles * nrOfRows
                         ELSE Len(snapDf) + (IF Len(snapDf) + nrOfRows > lengthLimit
                                             THEN 0 ELSE nrOfRows))
        /\ nrOfRows > lengthLimit => Len(df) = nrOfRows
        /\ (lengthLimit = 3 /\ nrOfRows = 1 /\ cycles = 4) =>
              /\ Len(df) = 3
              /\ df[1].label = 1
              /\ df[3].label = 3

ThreeRowsOfFourSingleBatches ==
    /\ pc = "idle"
    /\ inTick
    /\ lengthLimit = 3
    /\ nrOfRows = 1
    /\ cycles = 4
    /\ Len(snapDf) = 3
    /\ snapDf[1].label = 0
    /\ Len(df) = 3
    /\ df[1].label = 1

\* C2: the ingest of a tick leaves the old rows followed by the batch in the
\* batch's order; rows are removed if and only if that is more than
\* max_length rows, and then exactly the len(batch) earliest rows go, so the
\* survivors keep their order and the whole batch stays.
IngestIsFifo ==
    [][(pc = "col_exit" /\ inTick) =>
        LET old == Rows(df)
            batch == Rows(df_new_data)
            all == old \o batch
            kept == Rows(df')
        IN  /\ kept = IF Len(all) > lengthLimit
                      THEN SubSeq(all, Len(batch) + 1, Len(all))
                      ELSE all
            /\ Len(kept) >= Len(batch)
            /\ SubSeq(kept, Len(kept) - Len(batch) + 1, Len(kept)) = batch
            /\ \A k \in 1..(Len(df') - 1) : df'[k].label < df'[k + 1].label]_vars

EvictionHappened ==
    /\ pc = "idle"
    /\ inTick
    /\ raised = "none"
    /\ Len(snapDf) = max_length
    /\ snapDf[1].label = 0
    /\ Len(df) = max_length
    /\ df[1].label = NrOfSpecs
    /\ SubSeq(Rows(df), 1, max_length - NrOfSpecs)
          = SubSeq(Rows(snapDf), NrOfSpecs + 1, max_length)
    /\ SubSeq(Rows(df), max_length - NrOfSpecs + 1, max_length) = Rows(df_new_data)

BufferInLog ==
    save_to_csv =>
        LET lines == {csv_file[l] : l \in 1..Len(csv_file)}
        IN  \A k \in 1..Len(df) : CsvLine(df[k].row) \in lines

BufferOfTwoBatchesLogged ==
    /\ save_to_csv
    /\ pc = "idle"
    /\ inTick
    /\ raised = "none"
    /\ Len(df) = 2 * NrOfSpecs
    /\ Len(csv_file) = 1 + 2 * NrOfSpecs

\* C5: the assertion is raised exactly when the device ID response differs
\* from 0x0D 0xEE; when it is raised the script has ended with only the
\* probes 0x00 and 0x01 sent, no reading taken, and df and the file as they
\* were when the run started.
HandshakeGate ==
    /\ \A k \in 1..Len(wire) :
          (wire[k].ev = "read" /\ wire[k].cmd = 1) =>
              (wire[k].data = <<13, 238>> <=> raised # "AssertionError")
    /\ pc = "hs_exit" => raised = "none" /\ Written(wire) = <<0, 1, 2, 3>>
    /\ raised = "AssertionError" =>
          /\ pc = "off"
          /\ conn = 0
          /\ Written(wire) = <<0, 1>>
          /\ wire[Len(wire) - 1].ev = "read" /\ wire[Len(wire) - 1].cmd = 1
          /\ df = <<>>
          /\ df_new_data = <<>>
          /\ now = Epoch(run)
          /\ csv_file = snapCsv

AssertionEndedSecondRun ==
    /\ raised = "AssertionError"
    /\ run = 2
    /\ Len(csv_file) > 1
    /\ wire[Len(wire) - 1].data = <<13, 238, 0>>

\* C6: a response of exactly nr_of_bytes bytes decodes to the multiplier
\* times the little-endian integer of the bytes, two's complement for TC1,
\* TC2 (2 bytes) and VDD (4 bytes), unsigned for TH1 and TH2 (2 bytes).  The
\* product is the float product: with the multiplier 1 the integer itself,
\* with 0.1 the double nearest to a tenth of the integer or the next one
\* away from zero, and the nearest one for every multiple of ten.
DecodeIsScaledLittleEndian ==
    (pc = "decoded" /\ Len(read_bytes) = communication_specs[i].nr_of_bytes) =>
        LET b == read_bytes
            name == <<"TC1", "TC2", "VDD", "TH1", "TH2">>[i]
            top(x) == IF x >= 128 THEN x - 256 ELSE x
            int == CASE name \in {"TC1", "TC2"} -> b[1] + 256 * top(b[2])
                     [] name = "VDD" ->
                          b[1] + 256 * b[2] + 65536 * b[3] + 16777216 * top(b[4])
                     [] name \in {"TH1", "TH2"} -> b[1] + 256 * b[2]
            tenths == name \in {"TC1", "TC2"}
            row == df_new_data[1].row
        IN  /\ Len(df_new_data) = 1
            /\ row.id = name
            /\ row.value = Multiply(int, IF tenths THEN [num |-> 1, den |-> 10]
                                                ELSE [num |-> 1, den |-> 1])
            /\ row.value.num = int
            /\ row.value.den = (IF tenths THEN 10 ELSE 1)
            /\ row.value.ulps \in {0, 1}
            /\ (~tenths \/ int % 10 = 0) => row.value.ulps = 0

\* Command 0x10 answered with [0x0A, 0x00]: TC1, 'T', 1.0.
DecodedTenAsOne ==
    /\ pc = "decoded"
    /\ i = 1
    /\ read_bytes = <<10, 0>>
    /\ df_new_data[1].row.id = "TC1"
    /\ df_new_data[1].row.unit = "T"
    /\ df_new_data[1].row.value = [num |-> 10, den |-> 10, ulps |-> 0]
    /\ FormatValue(df_new_data[1].row.value) = "1.0"

\* C7: a cycle that reaches its end has sent 0x10, 0x11, 0x12, 0x14, 0x15 in
\* that order, each read before the next write, and holds five rows TC1, TC2,
\* VDD, TH1, TH2 with their units, whatever the length of each response; an
\* empty response decodes to 0.
CycleProtocol ==
    /\ pc = "col_exit" =>
          /\ raised = "none"
          /\ OneConnectionCarries(wire, <<16, 17, 18, 20, 21>>)
          /\ Len(df_new_data) = 5
          /\ \A k \in 1..5 :
                /\ df_new_data[k].row.id = <<"TC1", "TC2", "VDD", "TH1", "TH2">>[k]
                /\ df_new_data[k].row.unit = <<"T", "T", "uV", "ADC value", "ADC value">>[k]
                /\ wire[2 * k + 1].data = <<>> => df_new_data[k].row.value.num = 0
    /\ (pc = "idle" /\ raised = "none") =>
          /\ OneConnectionCarries(SubSeq(wire, 1, Len(wire) - 1), <<16, 17, 18, 20, 21>>)
          /\ wire[Len(wire)] = CloseEvent

CycleEndedAfterEmptyResponse ==
    /\ pc = "col_exit"
    /\ inTick
    /\ wire[7].ev = "read" /\ wire[7].data = <<>>
    /\ Len(df_new_data) = 5

\* C8: when a cycle inside a tick has raised, the tick is over (no further
\* command, no second attempt), the commands it sent are an initial part of
\* the five, and df and the file are as they were when the tick started.
TickFaultKeepsState ==
    (raised = "SerialException" /\ inTick) =>
        /\ pc \in {"idle", "off"}
        /\ conn = 0
        /\ Opens(wire) <= 1
        /\ IsPrefix(Written(wire), <<16, 17, 18, 20, 21>>)
        /\ df = snapDf
        /\ csv_file = snapCsv
        /\ df_new_data = <<>>

TickFaultAfterThreeSensors ==
    /\ raised = "SerialException"
    /\ inTick
    /\ save_to_csv
    /\ Written(wire) = <<16, 17, 18, 20>>
    /\ Len(df) = NrOfSpecs
    /\ Len(csv_file) = 1 + NrOfSpecs

\* C9: at most one connection is open; one is open at every position where
\* a command is written or a response read; none is open when no handshake
\* or cycle is running; every write and read in the log lies between an open
\* and the close that follows it.
ConnectionScoped ==
    /\ conn \in {0, 1}
    /\ pc \in {"hs_write", "hs_read", "hs_exit", "col_write", "col_read", "col_exit"}
          => conn = 1
    /\ pc \in {"off", "idle", "hs_open", "col_open"} => conn = 0
    /\ \A k \in 1..Len(wire) :
          wire[k].ev \in {"write", "read"} =>
              \E o \in 1..(k - 1) :
                  /\ wire[o].ev = "open"
                  /\ \A c \in o..k : wire[c].ev # "close"

ConnectionClosedAfterRaise ==
    /\ pc = "idle"
    /\ inTick
    /\ raised = "SerialException"
    /\ conn = 0
    /\ Len(wire) > 3
    /\ wire[Len(wire)] = CloseEvent

\* C10 as stated: every round-trip has a connection of its own, so between
\* two writes there is always a close and a new open.
OneCommandPerConnection ==
    \A k, l \in 1..Len(wire) :
        (k < l /\ wire[k].ev = "write" /\ wire[l].ev = "write") =>
            \E c \in k..l : wire[c].ev = "close"

\* C10 amended: an operation opens one connection, which carries all its
\* round-trips: the four probes of the handshake in order, or the five
\* sensor commands of a cycle in order, with no close or open in between.
OneConnectionPerOperation ==
    /\ Opens(wire) <= 1
    /\ \A k \in 1..(Len(wire) - 1) : wire[k].ev # "close"
    /\ pc = "hs_exit" => OneConnectionCarries(wire, <<0, 1, 2, 3>>)
    /\ pc = "col_exit" => OneConnectionCarries(wire, <<16, 17, 18, 20, 21>>)
    /\ (pc \in {"off", "idle"} /\ wire # <<>>) =>
          (wire[Len(wire)] = CloseEvent <=> Opens(wire) = 1)

CycleOnOneConnection ==
    /\ pc = "col_exit"
    /\ inTick
    /\ conn = 1
    /\ Opens(wire) = 1
    /\ Len(Written(wire)) = 5

====
